---------------------------- MODULE Spec2Model ----------------------------
(***************************************************************************)
(* Streaming snapshot playback client of drdebmath/LCMmodel.                *)
(*                                                                         *)
(* The model follows the streaming client (src/unnamed/part_003, from its  *)
(* line 203 on): the socket handlers that feed the snapshot queue, the     *)
(* requestAnimationFrame-driven drawLoop that drains it, drawSnapshot with *)
(* the one-shot viewport fit and the dirty-region set, the run-control     *)
(* handlers (start, pause, play, clear) and the message channel to the     *)
(* data-processing worker (src/static/data_processing_worker.js).          *)
(*                                                                         *)
(* Time is in milliseconds.  Scales are in thousandths (1000 = 1.0).       *)
(* Queue.js is imported by the client but is not among the sources; the    *)
(* Queue operators below follow the queue contract of the written    *)
(* specification (section 4.1).                                            *)
(***************************************************************************)
EXTENDS Integers, Sequences, FiniteSets, TLC

(***************************************************************************)
(* Bounds of the model.                                                    *)
(***************************************************************************)
\* snapshots the server sends in one behaviour (their time stamps are 1..MaxArrivals)
MaxArrivals == 7
\* the display clock stops advancing here
MaxTime == 34
\* snapshots of a short stream
MaxStream == 3
\* items of one batch of a short stream
MaxShortBatch == 2
\* requestAnimationFrame callbacks that may be pending at once
MaxPending == 3
\* items of one simulation_data_batch message
MaxBatch == 6
\* messages in flight to and from the worker
MaxInFlight == 1
\* dirty regions there may be when simulation_end registers an overlay draw
MaxDirty == 3
\* simulation_stats events of a behaviour
MaxStats == 2
\* robots placed by clicks since the last clear
MaxClicks == 2
\* requests and answers between the client and the worker
MaxRequests == 2

(***************************************************************************)
(* Program constants.                                                      *)
(***************************************************************************)
RENDER_THROTTLE_MS == 16
timePerFrameMs == 17
backlogThreshold == 5
maxCatchUp == 3
ROBOT_SIZE == 10
ROBOT_X_POS_FACTOR == 1
ROBOT_Y_POS_FACTOR == 1
visibility_radius == 1500
padding == 200
minScale == 300
maxScale == 1000
minDirtySize == 30
defaultDirtySize == 20
\* canvas.width and canvas.height as resizeCanvas last set them
canvasWidth == 800
canvasHeight == 600

\* the value of an unset variable or a missing field
Undef == "undefined"
\* (x + -x)/2 with x infinite: a value that is no coordinate of the inputs
NaN == -1000000
RunIds == {"A", "B"}
\* gaps between two display frames: a 120 Hz frame and a frame one period long
FrameGaps == {8, 17}
\* payload shapes: a well-formed [time, robots] pair, a missing snapshot
\* (null), and a pair whose robot entry cannot be destructured
Kinds == {"frame", "null", "bad"}
\* the arrival that may be malformed
MalformedTimes == {2}

Min(a, b) == IF a <= b THEN a ELSE b
Max(a, b) == IF a >= b THEN a ELSE b

VARIABLES
  simulationId,        \* let simulationId
  snapshotQueue,       \* let snapshotQueue = new Queue()
  paused,              \* let paused
  lastFrameTime,       \* let lastFrameTime
  lastRenderTime,      \* let lastRenderTime
  stopAnimation,       \* let stopAnimation
  drawingSimulation,   \* let drawingSimulation
  sec,                 \* let sec: smallest enclosing circles
  isFirstRender,       \* let isFirstRender
  needsViewportUpdate, \* let needsViewportUpdate
  viewScale,           \* let viewScale (thousandths)
  viewCenterX,         \* let viewCenterX
  viewCenterY,         \* let viewCenterY
  dirtyRegions,        \* let dirtyRegions = new Set(): objects in insertion order
  robots,              \* let robots: id -> position
  robotPrevPositions,  \* let robotPrevPositions: id -> position
  currRobotId,         \* let currRobotId: the id of the next robot placed by a click
  calculationCache,    \* the worker's const calculationCache = new Map()
  timeText,            \* time.innerText
  dataWorker,          \* let dataWorker: TRUE when the worker exists
  workerInbox,         \* messages posted to the worker, not yet handled by it
  workerOutbox,        \* messages posted by the worker, not yet handled by the client
  emitted,             \* the socket.emit calls of the handler that just ran
  rafQueue,            \* callbacks registered for the next display frame
  frameQueue,          \* callbacks of the running display frame still to run
  now,                 \* performance.now(); the running frame's currentTime
  nextTime,            \* time stamp of the next snapshot the server sends
  enqueueCount,        \* number of enqueue calls so far
  lastDrawn,           \* enqueue stamp of the snapshot passed to drawSnapshot last
  tick,                \* what the drawLoop call that just ran did (NoTick otherwise)
  clearsInRow,         \* clearSimulation calls since any other handler ran, up to 2
  statsTrace           \* the simulation_stats payloads received, and the results
                       \* updateExtendedStats passed on, both in order

vars == <<simulationId, snapshotQueue, paused, lastFrameTime, lastRenderTime,
          stopAnimation, drawingSimulation, sec, isFirstRender,
          needsViewportUpdate, viewScale, viewCenterX, viewCenterY,
          dirtyRegions, robots, robotPrevPositions, timeText, dataWorker,
          workerInbox, workerOutbox, emitted, rafQueue, frameQueue, now,
          nextTime, enqueueCount, lastDrawn, tick, clearsInRow, statsTrace,
          currRobotId, calculationCache>>

\* the rendering state drawSnapshot reads and writes
renderVars == <<isFirstRender, needsViewportUpdate, viewScale, viewCenterX,
                viewCenterY, dirtyRegions, robots, robotPrevPositions, timeText>>
workerVars == <<dataWorker, workerInbox, workerOutbox>>
clockVars == <<now, nextTime>>

\* the record of a drawLoop call: its outcome, the queue size it found, the
\* number of dequeue calls that returned a snapshot, the enqueue stamps
\* passed to drawSnapshot in order, the stamp drawn last before it, and the
\* time of the snapshot it dequeued last
NoTick ==
  [outcome |-> "none", size |-> 0, dequeued |-> 0, drawn |-> <<>>, before |-> 0,
   time |-> 0]
\* a handler other than drawLoop and clearSimulation ran
ObservedTick == tick' = NoTick /\ clearsInRow' = 0 /\ UNCHANGED lastDrawn
\* ... and neither received statistics nor called updateExtendedStats
ObservedHandler == ObservedTick /\ UNCHANGED statsTrace
\* ... and did not run in the worker
ObservedClient == ObservedHandler /\ UNCHANGED calculationCache
\* ... and did not place a robot or clear
Observed == ObservedClient /\ UNCHANGED currRobotId
\* the handler emitted nothing to the server
Silent == emitted' = <<>>


(***************************************************************************)
(* Queue (Queue.js): a FIFO buffer.                                        *)
(***************************************************************************)
\* enqueue(x): append at the tail
QueueEnqueue(q, x) == Append(q, x)
\* whether dequeue() signals empty
QueueIsEmpty(q) == q = <<>>
\* dequeue(): the head of a queue that is not empty
QueueFront(q) == Head(q)
\* the queue after dequeue()
QueueRest(q) == IF q = <<>> THEN <<>> ELSE Tail(q)
\* size
QueueSize(q) == Len(q)

(***************************************************************************)
(* Snapshots.  A payload is [time, kind, ents]; ents maps robot ids to     *)
(* positions <<x, y>>.  A queue entry carries, besides the payload, the    *)
(* stamp of the enqueue call that stored it and the run id of the message  *)
(* item it came from (neither is visible to the program).                  *)
(***************************************************************************)
RobotIds == {1}
\* the robots of the snapshot with time stamp t: one robot that moves
\* along the x axis, 10 units per snapshot
EntitiesAt(t) == [id \in RobotIds |-> <<10 * t, 0>>]
KindInputs(t) == IF t \in MalformedTimes THEN Kinds ELSE {"frame"}
Payload(t, k, e) == [time |-> t, kind |-> k, ents |-> e]
Item(run, p) == [simulation_id |-> run, snapshot |-> p]
Entry(n, run, p) == [seq |-> n, run |-> run, snap |-> p]

\* JavaScript truthiness of a queued snapshot (drawLoop: if (snapshot))
Truthy(p) == p.kind # "null"

\* the ids of a for-in loop, in order
RECURSIVE SortedIds(_)
SortedIds(S) ==
  IF S = {} THEN <<>>
  ELSE LET m == CHOOSE x \in S : \A y \in S : x <= y
       IN <<m>> \o SortedIds(S \ {m})

SetMin(S) == CHOOSE x \in S : \A y \in S : x <= y
SetMax(S) == CHOOSE x \in S : \A y \in S : x >= y

(***************************************************************************)
(* Rendering.  The rendering state is passed as a record R.                *)
(***************************************************************************)
RenderState ==
  [timeText |-> timeText, isFirstRender |-> isFirstRender,
   needsViewportUpdate |-> needsViewportUpdate, viewScale |-> viewScale,
   viewCenterX |-> viewCenterX, viewCenterY |-> viewCenterY,
   dirtyRegions |-> dirtyRegions, robots |-> robots,
   robotPrevPositions |-> robotPrevPositions]

\* addDirtyRegion(x, y, size)
addDirtyRegion(dr, x, y, size) == Append(dr, [x |-> x, y |-> y, size |-> size])

\* drawRobot(robot): the dirty-region set after it.  A robot outside the
\* canvas (with a margin) is skipped, any other gets one region.
drawRobot(dr, pos) ==
  LET x == pos[1] * ROBOT_X_POS_FACTOR
      y == pos[2] * ROBOT_Y_POS_FACTOR
      maxRadius == Max(ROBOT_SIZE * 2, minDirtySize) + visibility_radius
      dirtySize == Max(ROBOT_SIZE * 2, minDirtySize) + visibility_radius
  IN IF \/ x + maxRadius < 0 \/ x - maxRadius > canvasWidth
        \/ y + maxRadius < 0 \/ y - maxRadius > canvasHeight
     THEN dr
     ELSE addDirtyRegion(dr, x, y, dirtySize)

\* drawSEC(circles): one dirty region per circle
RECURSIVE drawSEC(_, _)
drawSEC(dr, circles) ==
  IF circles = <<>> THEN dr
  ELSE drawSEC(addDirtyRegion(dr,
                 Head(circles).center[1] * ROBOT_X_POS_FACTOR,
                 Head(circles).center[2] * ROBOT_Y_POS_FACTOR,
                 Head(circles).radius * ROBOT_X_POS_FACTOR),
               Tail(circles))

\* a fit whose scale is not capped
FitScaleUnclamped(ents) ==
  IF DOMAIN ents = {} THEN 0
  ELSE LET xs == {ents[i][1] : i \in DOMAIN ents}
           ys == {ents[i][2] : i \in DOMAIN ents}
           width == (SetMax(xs) + padding) - (SetMin(xs) - padding)
           height == (SetMax(ys) + padding) - (SetMin(ys) - padding)
           scaleX == ((canvasWidth \div ROBOT_X_POS_FACTOR) * maxScale) \div width
           scaleY == ((canvasHeight \div ROBOT_Y_POS_FACTOR) * maxScale) \div height
       IN Min(scaleX, scaleY)

\* the viewport fit of drawSnapshot (lines 1012-1062): scale and center
\* from the bounding box of the snapshot's robots.  With no robot the box
\* is infinite: the scale is -0 clamped to 0.3 and the center is NaN.
FitScale(ents) ==
  IF DOMAIN ents = {} THEN minScale
  ELSE LET xs == {ents[i][1] : i \in DOMAIN ents}
           ys == {ents[i][2] : i \in DOMAIN ents}
           width == (SetMax(xs) + padding) - (SetMin(xs) - padding)
           height == (SetMax(ys) + padding) - (SetMin(ys) - padding)
           scaleX == ((canvasWidth \div ROBOT_X_POS_FACTOR) * maxScale) \div width
           scaleY == ((canvasHeight \div ROBOT_Y_POS_FACTOR) * maxScale) \div height
       IN Max(Min(Min(scaleX, scaleY), maxScale), minScale)
FitCenterX(ents) ==
  IF DOMAIN ents = {} THEN NaN
  ELSE LET xs == {ents[i][1] : i \in DOMAIN ents}
       IN ((SetMin(xs) - padding) + (SetMax(xs) + padding)) \div 2
FitCenterY(ents) ==
  IF DOMAIN ents = {} THEN NaN
  ELSE LET ys == {ents[i][2] : i \in DOMAIN ents}
       IN ((SetMin(ys) - padding) + (SetMax(ys) + padding)) \div 2

\* the second loop of drawSnapshot (lines 1094-1132), over the ids left
RECURSIVE drawRobots(_, _, _)
drawRobots(R, ents, ids) ==
  IF ids = <<>> THEN R
  ELSE LET id == Head(ids)
           pos == ents[id]
           moved == /\ id \in DOMAIN R.robotPrevPositions
                    /\ R.robotPrevPositions[id] # pos
           dr1 == IF moved
                  THEN addDirtyRegion(R.dirtyRegions,
                         R.robotPrevPositions[id][1] * ROBOT_X_POS_FACTOR,
                         R.robotPrevPositions[id][2] * ROBOT_Y_POS_FACTOR,
                         Max(ROBOT_SIZE * 2,
                             IF visibility_radius # 0 THEN visibility_radius
                             ELSE defaultDirtySize))
                  ELSE R.dirtyRegions
           withId(f) == [j \in DOMAIN f \cup {id} |-> IF j = id THEN pos ELSE f[j]]
       IN drawRobots([R EXCEPT !.dirtyRegions = drawRobot(dr1, pos),
                               !.robots = withId(R.robots),
                               !.robotPrevPositions = withId(R.robotPrevPositions)],
                     ents, Tail(ids))

\* a drawSnapshot that fits the viewport to every snapshot
drawSnapshotRefitting(R, p) ==
  LET R0 == [R EXCEPT !.timeText = p.time]
  IN IF p.kind = "bad" THEN [state |-> R0, threw |-> TRUE]
     ELSE
       LET R1 == [R0 EXCEPT !.viewScale = FitScale(p.ents),
                            !.viewCenterX = FitCenterX(p.ents),
                            !.viewCenterY = FitCenterY(p.ents),
                            !.needsViewportUpdate = TRUE,
                            !.isFirstRender = FALSE]
           R2 == [R1 EXCEPT !.dirtyRegions = <<>>]
           R3 == drawRobots(R2, p.ents, SortedIds(DOMAIN p.ents))
       IN [state |-> [R3 EXCEPT !.needsViewportUpdate = FALSE], threw |-> FALSE]

\* drawSnapshot(snapshot), lines 1007-1138.  The result has a field threw:
\* a payload whose robot entry cannot be destructured throws at line 1018,
\* after the time element was updated and before anything else.
drawSnapshot(R, p) ==
  LET R0 == [R EXCEPT !.timeText = p.time]
  IN IF p.kind = "bad" THEN [state |-> R0, threw |-> TRUE]
     ELSE
       LET R1 == IF R0.isFirstRender
                 THEN [R0 EXCEPT !.viewScale = FitScale(p.ents),
                                 !.viewCenterX = FitCenterX(p.ents),
                                 !.viewCenterY = FitCenterY(p.ents),
                                 !.needsViewportUpdate = TRUE,
                                 !.isFirstRender = FALSE]
                 ELSE R0
           \* both branches (line 1085, line 1090) leave the set empty
           R2 == [R1 EXCEPT !.dirtyRegions = <<>>]
           R3 == drawRobots(R2, p.ents, SortedIds(DOMAIN p.ents))
       IN [state |-> [R3 EXCEPT !.needsViewportUpdate = FALSE], threw |-> FALSE]

(***************************************************************************)
(* The drawing loop.                                                       *)
(***************************************************************************)
\* k calls of requestAnimationFrame(cb)
RECURSIVE Requested(_, _, _)
Requested(rq, cb, k) == IF k = 0 THEN rq ELSE Requested(Append(rq, cb), cb, k - 1)

\* a throttle that forgets the pending viewport update
ThrottledIgnoringInvalidate(currentTime) ==
  currentTime - lastRenderTime < RENDER_THROTTLE_MS

\* drawLoop, lines 867-871: the tick is skipped for rendering
Throttled(currentTime) ==
  currentTime - lastRenderTime < RENDER_THROTTLE_MS /\ ~needsViewportUpdate

\* a drawLoop whose playback test forgets the pause flag
EligibleIgnoringPause(currentTime) ==
  currentTime - lastFrameTime >= timePerFrameMs

\* drawLoop, lines 873-874: the tick plays snapshots
Eligible(currentTime) ==
  currentTime - lastFrameTime >= timePerFrameMs /\ ~paused

\* drawLoop, lines 876-881: snapshots to process in one tick
SnapshotsToProcess(size) ==
  IF size > backlogThreshold THEN Min(maxCatchUp, size \div 2) ELSE 1

\* the state the for loop of drawLoop works on
LoopStart ==
  [queue |-> snapshotQueue, R |-> RenderState, processedAny |-> FALSE,
   lastFrameTime |-> lastFrameTime, lastRenderTime |-> lastRenderTime,
   threw |-> FALSE, stopped |-> FALSE, drawn |-> <<>>, dequeued |-> 0, time |-> 0]

\* an iteration that reads the head of the queue without removing it
LoopStepWithoutDequeue(L, i, n, currentTime) ==
  IF QueueIsEmpty(L.queue) THEN [L EXCEPT !.stopped = TRUE]
  ELSE LET e == QueueFront(L.queue)
           L1 == [L EXCEPT !.dequeued = L.dequeued + 1, !.time = e.snap.time]
       IN IF ~Truthy(e.snap) THEN [L1 EXCEPT !.stopped = TRUE]
          ELSE LET d == drawSnapshot(L1.R, e.snap)
                   L2 == [L1 EXCEPT !.R = d.state, !.drawn = Append(L1.drawn, e.seq)]
               IN IF d.threw THEN [L2 EXCEPT !.threw = TRUE]
                  ELSE [L2 EXCEPT !.processedAny = TRUE,
                                  !.lastFrameTime =
                                     IF i = n - 1 THEN currentTime ELSE L2.lastFrameTime,
                                  !.lastRenderTime =
                                     IF i = n - 1 THEN currentTime ELSE L2.lastRenderTime]

\* one iteration of the for loop (lines 885-899) with loop index i of n;
\* stopped is set by break, threw by an exception in drawSnapshot
LoopStep(L, i, n, currentTime) ==
  IF QueueIsEmpty(L.queue) THEN [L EXCEPT !.stopped = TRUE]
  ELSE LET e == QueueFront(L.queue)
           L1 == [L EXCEPT !.queue = QueueRest(L.queue), !.dequeued = L.dequeued + 1,
                           !.time = e.snap.time]
       IN IF ~Truthy(e.snap) THEN [L1 EXCEPT !.stopped = TRUE]
          ELSE LET d == drawSnapshot(L1.R, e.snap)
                   L2 == [L1 EXCEPT !.R = d.state, !.drawn = Append(L1.drawn, e.seq)]
               IN IF d.threw THEN [L2 EXCEPT !.threw = TRUE]
                  ELSE [L2 EXCEPT !.processedAny = TRUE,
                                  !.lastFrameTime =
                                     IF i = n - 1 THEN currentTime ELSE L2.lastFrameTime,
                                  !.lastRenderTime =
                                     IF i = n - 1 THEN currentTime ELSE L2.lastRenderTime]

\* the for loop of drawLoop
RECURSIVE ProcessSnapshots(_, _, _, _)
ProcessSnapshots(L, i, n, currentTime) ==
  IF i >= n \/ L.stopped \/ L.threw THEN L
  ELSE ProcessSnapshots(LoopStep(L, i, n, currentTime), i + 1, n, currentTime)

\* a drawLoop that takes a tick without a snapshot for an ordinary tick
ExhaustedNever(L) == FALSE

\* drawLoop, lines 901-905: the for loop drew nothing (if (!processedAny))
Exhausted(L) == ~L.threw /\ ~L.processedAny

\* the variables drawSnapshot writes, from a rendering state
SetRender(R) ==
  /\ timeText' = R.timeText
  /\ isFirstRender' = R.isFirstRender
  /\ needsViewportUpdate' = R.needsViewportUpdate
  /\ viewScale' = R.viewScale
  /\ viewCenterX' = R.viewCenterX
  /\ viewCenterY' = R.viewCenterY
  /\ dirtyRegions' = R.dirtyRegions
  /\ robots' = R.robots
  /\ robotPrevPositions' = R.robotPrevPositions

\* drawLoop(currentTime), lines 854-928, as the first callback of the
\* running frame
drawLoop ==
  /\ frameQueue # <<>> /\ Head(frameQueue) = "drawLoop"
  /\ frameQueue' = Tail(frameQueue)
  /\ clearsInRow' = 0
  /\ Silent
  /\ UNCHANGED <<simulationId, paused, sec, workerVars, clockVars, enqueueCount,
                 statsTrace, currRobotId, calculationCache>>
  /\ IF stopAnimation \/ simulationId = Undef
     THEN /\ tick' = [NoTick EXCEPT !.outcome = "returned"]
          /\ UNCHANGED <<snapshotQueue, lastFrameTime, lastRenderTime, stopAnimation,
                         drawingSimulation, renderVars, rafQueue, lastDrawn>>
     ELSE IF Throttled(now)
     THEN /\ rafQueue' = Requested(rafQueue, "drawLoop", 1)
          /\ tick' = [NoTick EXCEPT !.outcome = "throttled"]
          /\ UNCHANGED <<snapshotQueue, lastFrameTime, lastRenderTime, stopAnimation,
                         drawingSimulation, renderVars, lastDrawn>>
     ELSE IF Eligible(now)
     THEN LET L == ProcessSnapshots(LoopStart, 0,
                     SnapshotsToProcess(QueueSize(snapshotQueue)), now)
              ended == Exhausted(L)
          IN /\ snapshotQueue' = L.queue
             /\ lastFrameTime' = L.lastFrameTime
             /\ lastRenderTime' = L.lastRenderTime
             /\ lastDrawn' = IF L.drawn = <<>> THEN lastDrawn ELSE L.drawn[Len(L.drawn)]
             /\ tick' = [outcome |-> IF L.threw THEN "threw"
                                     ELSE IF ended THEN "ended" ELSE "played",
                         size |-> QueueSize(snapshotQueue), dequeued |-> L.dequeued,
                         drawn |-> L.drawn, before |-> lastDrawn, time |-> L.time]
             /\ SetRender(IF ended
                          THEN [L.R EXCEPT !.dirtyRegions = drawSEC(L.R.dirtyRegions, sec)]
                          ELSE L.R)
             \* stopDrawingLoop(), lines 773-776
             /\ stopAnimation' = IF ended THEN TRUE ELSE stopAnimation
             /\ drawingSimulation' = IF ended THEN FALSE ELSE drawingSimulation
             /\ rafQueue' = IF ended \/ L.threw THEN rafQueue
                            ELSE Requested(rafQueue, "drawLoop", 1)
     ELSE /\ rafQueue' = Requested(rafQueue, "drawLoop", 1)
          /\ tick' = [NoTick EXCEPT !.outcome = "waited"]
          /\ UNCHANGED <<snapshotQueue, lastFrameTime, lastRenderTime, stopAnimation,
                         drawingSimulation, renderVars, lastDrawn>>

\* the callback simulation_end registers (lines 425-427): drawSEC(sec)
drawSECCallback ==
  /\ frameQueue # <<>> /\ Head(frameQueue) = "drawSEC"
  /\ frameQueue' = Tail(frameQueue)
  /\ dirtyRegions' = drawSEC(dirtyRegions, sec)
  /\ Observed
  /\ Silent
  /\ UNCHANGED <<simulationId, snapshotQueue, paused, lastFrameTime, lastRenderTime,
                 stopAnimation, drawingSimulation, sec, isFirstRender,
                 needsViewportUpdate, viewScale, viewCenterX, viewCenterY, robots,
                 robotPrevPositions, timeText, workerVars, rafQueue,
                 clockVars, enqueueCount>>

\* a display frame with callbacks to run begins after d ms: they become the
\* frame's callbacks, all with the same currentTime
BeginFrame(d) ==
  /\ frameQueue = <<>>
  /\ rafQueue # <<>>
  /\ now + d <= MaxTime
  /\ now' = now + d
  /\ frameQueue' = rafQueue
  /\ rafQueue' = <<>>
  /\ Observed
  /\ Silent
  /\ UNCHANGED <<simulationId, snapshotQueue, paused, lastFrameTime, lastRenderTime,
                 stopAnimation, drawingSimulation, sec, renderVars, workerVars,
                 nextTime, enqueueCount>>

\* BeginFrame with the clock kept within MaxTime: the code compares
\* currentTime with lastFrameTime (>= timePerFrameMs) and with lastRenderTime
\* (< RENDER_THROTTLE_MS) and reads the three nowhere else, so past MaxTime
\* the three are moved back by the same amount, and a stored time that is
\* further back than the comparison can tell is kept at that distance
BeginFrameRebased(d) ==
  LET shift == Max(now + d - MaxTime, 0)
  IN /\ frameQueue = <<>>
     /\ rafQueue # <<>>
     /\ now' = now + d - shift
     /\ lastFrameTime' = IF shift = 0 THEN lastFrameTime
                         ELSE Max(lastFrameTime - shift, MaxTime - timePerFrameMs)
     /\ lastRenderTime' = IF shift = 0 THEN lastRenderTime
                          ELSE Max(lastRenderTime - shift, MaxTime - RENDER_THROTTLE_MS)
     /\ frameQueue' = rafQueue
     /\ rafQueue' = <<>>
     /\ Observed
     /\ Silent
     /\ UNCHANGED <<simulationId, snapshotQueue, paused, stopAnimation,
                    drawingSimulation, sec, renderVars, workerVars,
                    nextTime, enqueueCount>>

(***************************************************************************)
(* Ingress: the socket handlers that feed the queue.                       *)
(***************************************************************************)
\* the entries a sequence of message items adds to queue q, enqueue stamps
\* from n + 1 on
RECURSIVE EnqueueAll(_, _, _)
EnqueueAll(q, items, n) ==
  IF items = <<>> THEN q
  ELSE EnqueueAll(QueueEnqueue(q, Entry(n + 1, Head(items).simulation_id,
                                        Head(items).snapshot)),
                  Tail(items), n + 1)

\* a filter over a sequence
RECURSIVE SelectItems(_, _)
SelectItems(items, run) ==
  IF items = <<>> THEN <<>>
  ELSE (IF Head(items).simulation_id = run THEN <<Head(items)>> ELSE <<>>)
       \o SelectItems(Tail(items), run)

\* the run ids a sequence of items carries
RunsOf(items) == {items[i].simulation_id : i \in 1..Len(items)}

\* socket.on("simulation_data"), lines 345-363
simulation_data(run, p) ==
  /\ frameQueue = <<>>
  /\ nextTime <= MaxArrivals
  /\ Observed
  /\ IF simulationId = run
     THEN /\ Len(rafQueue) < MaxPending
          /\ nextTime' = nextTime + 1
          \* startDrawingLoop(), lines 766-771
          /\ stopAnimation' = FALSE
          /\ drawingSimulation' = TRUE
          /\ lastFrameTime' = now
          /\ rafQueue' = Requested(rafQueue, "drawLoop", 1)
          /\ snapshotQueue' = EnqueueAll(snapshotQueue, <<Item(run, p)>>, enqueueCount)
          /\ enqueueCount' = enqueueCount + 1
     ELSE UNCHANGED <<stopAnimation, drawingSimulation, lastFrameTime, rafQueue,
                      snapshotQueue, enqueueCount, nextTime>>
  /\ Silent
  /\ UNCHANGED <<simulationId, paused, lastRenderTime, sec, renderVars, workerVars,
                 frameQueue, now>>

\* the synchronous fallback of simulation_data_batch, lines 381-396, for a
\* batch that is not empty: the variables it writes
BatchFallback(batch) ==
  /\ Len(rafQueue) < MaxPending
  /\ stopAnimation' = FALSE
  /\ drawingSimulation' = TRUE
  /\ lastFrameTime' = now
  /\ rafQueue' = Requested(rafQueue, "drawLoop", 1)
  /\ IF simulationId # batch[1].simulation_id
     THEN emitted' = <<>> /\ UNCHANGED <<snapshotQueue, enqueueCount>>
     ELSE /\ snapshotQueue' = EnqueueAll(snapshotQueue, batch, enqueueCount)
          /\ enqueueCount' = enqueueCount + Len(batch)
          /\ emitted' = <<[event |-> "batch_ack", count |-> Len(batch),
                                         simulation_id |-> simulationId]>>

\* socket.on("simulation_data_batch"), lines 365-404, for a message with a
\* batch array
simulation_data_batch(batch) ==
  /\ frameQueue = <<>>
  /\ nextTime + Len(batch) <= MaxArrivals + 1
  /\ Observed
  /\ nextTime' = IF dataWorker \/ (Len(batch) > 0 /\ simulationId = batch[1].simulation_id)
                 THEN nextTime + Len(batch) ELSE nextTime
  /\ IF dataWorker
     THEN /\ Len(workerInbox) + Len(workerOutbox) < MaxInFlight
          /\ workerInbox' = Append(workerInbox, [type |-> "process_batch", data |-> batch])
          /\ emitted' = <<[event |-> "batch_ack", count |-> Len(batch),
                                         simulation_id |-> simulationId]>>
          /\ UNCHANGED <<stopAnimation, drawingSimulation, lastFrameTime, rafQueue,
                         snapshotQueue, enqueueCount>>
     ELSE /\ UNCHANGED workerInbox
          /\ IF Len(batch) > 0
             THEN BatchFallback(batch)
             ELSE /\ emitted' = <<[event |-> "batch_ack", count |-> 0,
                                                 simulation_id |-> simulationId]>>
                  /\ UNCHANGED <<stopAnimation, drawingSimulation, lastFrameTime,
                                 rafQueue, snapshotQueue, enqueueCount>>
  /\ UNCHANGED <<simulationId, paused, lastRenderTime, sec, renderVars, dataWorker,
                 workerOutbox, frameQueue, now>>

\* socket.on("simulation_data_batch") for a message without a batch array,
\* lines 366-370
simulation_data_batch_invalid ==
  /\ frameQueue = <<>>
  /\ Observed
  /\ Silent
  /\ UNCHANGED <<simulationId, snapshotQueue, paused, lastFrameTime, lastRenderTime,
                 stopAnimation, drawingSimulation, sec, renderVars, workerVars,
                 rafQueue, frameQueue, clockVars, enqueueCount>>

\* socket.on("smallest_enclosing_circle"), lines 444-449
smallest_enclosing_circle(run, circles) ==
  /\ frameQueue = <<>>
  /\ sec' = IF simulationId = run THEN circles ELSE sec
  /\ Observed
  /\ Silent
  /\ UNCHANGED <<simulationId, snapshotQueue, paused, lastFrameTime, lastRenderTime,
                 stopAnimation, drawingSimulation, renderVars, workerVars, rafQueue, frameQueue, clockVars, enqueueCount>>

(***************************************************************************)
(* Run control.                                                            *)
(***************************************************************************)
\* socket.on("simulation_start"), lines 406-419
simulation_start(data) ==
  /\ frameQueue = <<>>
  /\ simulationId' = data
  /\ dirtyRegions' = <<>>
  /\ robotPrevPositions' = <<>>
  /\ IF dataWorker
     THEN /\ Len(workerInbox) + Len(workerOutbox) < MaxInFlight
          /\ workerInbox' = Append(workerInbox, [type |-> "clear_cache", data |-> <<>>])
     ELSE UNCHANGED workerInbox
  /\ Observed
  /\ Silent
  /\ UNCHANGED <<snapshotQueue, paused, lastFrameTime, lastRenderTime, stopAnimation,
                 drawingSimulation, sec, isFirstRender, needsViewportUpdate, viewScale,
                 viewCenterX, viewCenterY, robots, timeText, dataWorker, workerOutbox,
                 rafQueue, frameQueue, clockVars, enqueueCount>>

\* an end handler that, besides requesting the circles, stops the loop and
\* empties the queue
simulation_endStoppingPlayback ==
  /\ frameQueue = <<>>
  /\ IF Len(sec) > 0
     THEN /\ Len(rafQueue) < MaxPending
          /\ Len(dirtyRegions) <= MaxDirty
          /\ \A i \in 1..Len(rafQueue) : rafQueue[i] # "drawSEC"
          /\ rafQueue' = Requested(rafQueue, "drawSEC", 1)
     ELSE UNCHANGED rafQueue
  /\ snapshotQueue' = <<>>
  /\ stopAnimation' = TRUE
  /\ Observed
  /\ Silent
  /\ UNCHANGED <<simulationId, paused, lastFrameTime, lastRenderTime,
                 drawingSimulation, sec, renderVars, workerVars, frameQueue, clockVars, enqueueCount>>

\* socket.on("simulation_end"), lines 421-429
simulation_end ==
  /\ frameQueue = <<>>
  /\ IF Len(sec) > 0
     THEN /\ Len(rafQueue) < MaxPending
          /\ Len(dirtyRegions) <= MaxDirty
          /\ \A i \in 1..Len(rafQueue) : rafQueue[i] # "drawSEC"
          /\ rafQueue' = Requested(rafQueue, "drawSEC", 1)
     ELSE UNCHANGED rafQueue
  /\ Observed
  /\ Silent
  /\ UNCHANGED <<simulationId, snapshotQueue, paused, lastFrameTime, lastRenderTime,
                 stopAnimation, drawingSimulation, sec, renderVars, workerVars, frameQueue, clockVars, enqueueCount>>

\* a clearSimulation that leaves the pause flag as it is
ClearEffectsKeepingPause ==
  /\ timeText' = 0
  /\ snapshotQueue' = <<>>
  /\ robots' = <<>>
  /\ UNCHANGED paused
  /\ sec' = <<>>
  /\ viewScale' = maxScale
  /\ viewCenterX' = 0
  /\ viewCenterY' = 0
  /\ needsViewportUpdate' = TRUE
  /\ dirtyRegions' = <<>>
  /\ robotPrevPositions' = <<>>
  /\ isFirstRender' = TRUE

\* a clearSimulation that flips the first-render flag instead of setting it
ClearEffectsFlippingFirstRender ==
  /\ timeText' = 0
  /\ snapshotQueue' = <<>>
  /\ robots' = <<>>
  /\ paused' = FALSE
  /\ sec' = <<>>
  /\ viewScale' = maxScale
  /\ viewCenterX' = 0
  /\ viewCenterY' = 0
  /\ needsViewportUpdate' = TRUE
  /\ dirtyRegions' = <<>>
  /\ robotPrevPositions' = <<>>
  /\ isFirstRender' = ~isFirstRender

\* what clearSimulation() writes, lines 1183-1221, other than simulationId,
\* drawingSimulation and lastFrameTime (clearCanvas, line 967, empties the
\* dirty-region set as well)
ClearEffects ==
  /\ timeText' = 0
  /\ snapshotQueue' = <<>>
  /\ robots' = <<>>
  /\ paused' = FALSE
  /\ sec' = <<>>
  /\ viewScale' = maxScale
  /\ viewCenterX' = 0
  /\ viewCenterY' = 0
  /\ needsViewportUpdate' = TRUE
  /\ dirtyRegions' = <<>>
  /\ robotPrevPositions' = <<>>
  /\ isFirstRender' = TRUE

\* clearSimulation(), lines 1183-1221, as the handler of the clear button
clearSimulation ==
  /\ frameQueue = <<>>
  /\ ClearEffects
  /\ simulationId' = Undef
  /\ drawingSimulation' = FALSE
  /\ lastFrameTime' = 0
  /\ currRobotId' = 0
  /\ clearsInRow' = Min(clearsInRow + 1, 2)
  /\ tick' = NoTick
  /\ UNCHANGED lastDrawn
  /\ Silent
  /\ UNCHANGED <<lastRenderTime, stopAnimation, workerVars, rafQueue,
                 frameQueue, clockVars, enqueueCount, statsTrace, calculationCache>>

\* startSimulation.start_simulation, lines 457-477: clearSimulation(), a
\* fresh id, the request to the server, startDrawingLoop()
start_simulation(id) ==
  /\ frameQueue = <<>>
  /\ Len(rafQueue) < MaxPending
  /\ ClearEffects
  /\ simulationId' = id
  /\ emitted' = <<[event |-> "start_simulation", count |-> 0,
                                 simulation_id |-> id]>>
  /\ stopAnimation' = FALSE
  /\ drawingSimulation' = TRUE
  /\ lastFrameTime' = now
  /\ rafQueue' = Requested(rafQueue, "drawLoop", 1)
  /\ currRobotId' = 0
  /\ ObservedClient
  /\ UNCHANGED <<lastRenderTime, workerVars, frameQueue, clockVars, enqueueCount>>

\* handleCanvasClick(e), lines 1144-1181, for a click at world position pos:
\* clearSimulation() when a time is displayed, then a robot with the next id
\* is put into robots, its area marked dirty and the robot drawn
handleCanvasClick(pos) ==
  LET cleared == timeText # 0
      id == IF cleared THEN 0 ELSE currRobotId
      kept == IF cleared THEN <<>> ELSE robots
      regions == IF cleared THEN <<>> ELSE dirtyRegions
  IN /\ frameQueue = <<>>
     /\ id < MaxClicks
     /\ robots' = [k \in DOMAIN kept \cup {id} |-> IF k = id THEN pos ELSE kept[k]]
     /\ currRobotId' = id + 1
     /\ dirtyRegions' =
          drawRobot(addDirtyRegion(regions, pos[1] * ROBOT_X_POS_FACTOR,
                                   pos[2] * ROBOT_Y_POS_FACTOR, ROBOT_SIZE * 2),
                    pos)
     /\ IF cleared
        THEN /\ timeText' = 0
             /\ simulationId' = Undef
             /\ snapshotQueue' = <<>>
             /\ lastFrameTime' = 0
             /\ paused' = FALSE
             /\ drawingSimulation' = FALSE
             /\ sec' = <<>>
             /\ viewScale' = maxScale
             /\ viewCenterX' = 0
             /\ viewCenterY' = 0
             /\ needsViewportUpdate' = TRUE
             /\ robotPrevPositions' = <<>>
             /\ isFirstRender' = TRUE
        ELSE UNCHANGED <<timeText, simulationId, snapshotQueue, lastFrameTime, paused,
                         drawingSimulation, sec, viewScale, viewCenterX, viewCenterY,
                         needsViewportUpdate, robotPrevPositions, isFirstRender>>
     /\ ObservedClient
     /\ Silent
     /\ UNCHANGED <<lastRenderTime, stopAnimation, workerVars, rafQueue, frameQueue,
                    clockVars, enqueueCount>>

\* redrawCanvas (lines 930-949) with needsViewportUpdate set: clearCanvas
\* empties the dirty-region set and drawRobot runs for every tracked robot
RECURSIVE redrawRobots(_, _, _)
redrawRobots(dr, rs, ids) ==
  IF ids = <<>> THEN dr
  ELSE redrawRobots(drawRobot(dr, rs[Head(ids)]), rs, Tail(ids))

\* resizeCanvas(), lines 977-1005, as the handler of the window's resize
\* event, the canvas getting the size it had
resizeCanvas ==
  /\ frameQueue = <<>>
  /\ viewScale' = maxScale
  /\ viewCenterX' = 0
  /\ viewCenterY' = 0
  /\ IF DOMAIN robots # {}
     THEN /\ dirtyRegions' = redrawRobots(<<>>, robots, SortedIds(DOMAIN robots))
          /\ needsViewportUpdate' = FALSE
     ELSE /\ needsViewportUpdate' = TRUE
          /\ UNCHANGED dirtyRegions
  /\ Observed
  /\ Silent
  /\ UNCHANGED <<simulationId, snapshotQueue, paused, lastFrameTime, lastRenderTime,
                 stopAnimation, drawingSimulation, sec, isFirstRender, robots,
                 robotPrevPositions, timeText, workerVars, rafQueue, frameQueue,
                 clockVars, enqueueCount>>

\* togglePause.pause_simulation, lines 480-482
pause_simulation ==
  /\ frameQueue = <<>>
  /\ paused' = TRUE
  /\ Observed
  /\ Silent
  /\ UNCHANGED <<simulationId, snapshotQueue, lastFrameTime, lastRenderTime,
                 stopAnimation, drawingSimulation, sec, renderVars, workerVars, rafQueue, frameQueue, clockVars, enqueueCount>>

\* togglePause.play_simulation, lines 483-485
play_simulation ==
  /\ frameQueue = <<>>
  /\ paused' = FALSE
  /\ Observed
  /\ Silent
  /\ UNCHANGED <<simulationId, snapshotQueue, lastFrameTime, lastRenderTime,
                 stopAnimation, drawingSimulation, sec, renderVars, workerVars, rafQueue, frameQueue, clockVars, enqueueCount>>

(***************************************************************************)
(* The data-processing worker and its channel.                             *)
(***************************************************************************)
\* Object.entries(item.snapshot), line 73, of a [time, robots] pair: the
\* indexes 0 and 1 with the time and the robots object.  In a "hollow"
\* payload, [time, null], the robots object is null.
SnapshotEntries(p) ==
  <<[id |-> 0, details |-> "number"],
    [id |-> 1, details |-> IF p.kind = "hollow" THEN "null" ELSE "object"]>>

\* details.pos, line 74: neither a number nor a robots object (keyed by
\* robot ids) has a pos
PosOf(details) == Undef

\* the forEach of lines 73-96 over the entries left.  details.pos of null
\* throws; a previous position that is set would be compared with the
\* undefined position, which throws as well (position.x, line 80).
RECURSIVE trackEntries(_, _)
trackEntries(acc, entries) ==
  IF entries = <<>> \/ acc.threw THEN acc
  ELSE LET e == Head(entries)
           prevPos == IF e.id \in DOMAIN acc.cache THEN acc.cache[e.id] ELSE Undef
       IN IF e.details = "null" \/ prevPos # Undef
          THEN [acc EXCEPT !.threw = TRUE]
          ELSE trackEntries(
                 [acc EXCEPT !.cache = [k \in DOMAIN acc.cache \cup {e.id} |->
                                          IF k = e.id THEN PosOf(e.details)
                                          ELSE acc.cache[k]]],
                 Tail(entries))

\* calculateRobotMovements(item), data_processing_worker.js lines 63-103,
\* with the cache it finds: the movements, the cache it leaves and whether
\* it threw.  A missing snapshot returns at line 64.
calculateRobotMovements(cache, item) ==
  LET start == [cache |-> cache, movements |-> <<>>, significantMovement |-> FALSE,
                threw |-> FALSE]
  IN IF ~Truthy(item.snapshot) THEN start
     ELSE trackEntries(start, SnapshotEntries(item.snapshot))

\* the map of processBatch over the snapshots left
RECURSIVE mapSnapshots(_, _)
mapSnapshots(acc, snapshots) ==
  IF snapshots = <<>> \/ acc.threw THEN acc
  ELSE LET m == calculateRobotMovements(acc.cache, Head(snapshots))
       IN mapSnapshots(
            [data |-> Append(acc.data,
                             [simulation_id |-> Head(snapshots).simulation_id,
                              snapshot |-> Head(snapshots).snapshot,
                              robotMovements |-> m.movements,
                              needsFullRedraw |-> m.significantMovement]),
             cache |-> m.cache, threw |-> m.threw],
            Tail(snapshots))

\* processBatch(snapshots), data_processing_worker.js lines 46-60, with the
\* cache it finds
processBatch(cache, snapshots) ==
  mapSnapshots([data |-> <<>>, cache |-> cache, threw |-> FALSE], snapshots)

\* detectSignificantMovement(snapshotHistory), data_processing_worker.js
\* lines 167-239: a history of fewer than two snapshots returns at line
\* 169; with two or more the loop reads the pos of a pair's time or robots
\* object, which is undefined, and currPos.x (line 188) throws.
detectSignificantMovement(snapshotHistory) ==
  IF Len(snapshotHistory) < 2
  THEN [threw |-> FALSE, data |-> [hasSignificantMovement |-> FALSE]]
  ELSE [threw |-> TRUE, data |-> [hasSignificantMovement |-> FALSE]]

\* the sum of a sequence of numbers
RECURSIVE SeqSum(_)
SeqSum(values) == IF values = <<>> THEN 0 ELSE Head(values) + SeqSum(Tail(values))

\* calculateVariance(values), data_processing_worker.js lines 159-165, in
\* whole numbers
calculateVariance(values) ==
  IF values = <<>> THEN 0
  ELSE LET mean == SeqSum(values) \div Len(values)
       IN SeqSum([i \in 1..Len(values) |-> (values[i] - mean) * (values[i] - mean)])
            \div Len(values)

\* the result of calculateStats for a payload without statistics
NullStats == [isNull |-> TRUE]

\* calculateStats(data), data_processing_worker.js lines 113-156.  Quotients
\* are whole numbers; the termination rate is in thousandths.
calculateStats(data) ==
  IF "stats" \notin DOMAIN data THEN NullStats
  ELSE LET stats == data.stats
           details == stats.robot_details
           n == Len(details)
           distances == [i \in 1..n |-> details[i].distance_travelled]
       IN IF n = 0 THEN [stats |-> stats]
          ELSE [stats |-> stats,
                efficiency |-> stats.total_distance \div Max(1, stats.final_time),
                distanceVariance |-> calculateVariance(distances),
                maxDistance |-> SetMax({distances[i] : i \in 1..n}),
                minDistance |-> -SetMax({-distances[i] : i \in 1..n}),
                colorDistribution |->
                  [c \in {details[i].color : i \in 1..n} |->
                     Cardinality({i \in 1..n : details[i].color = c})],
                terminationRate |->
                  (1000 * Cardinality({i \in 1..n : details[i].terminated})) \div n,
                averagePosition |->
                  <<SeqSum([i \in 1..n |-> details[i].final_position[1]]) \div n,
                    SeqSum([i \in 1..n |-> details[i].final_position[2]]) \div n>>]

\* self.onmessage, data_processing_worker.js lines 8-43: the worker
\* handles the oldest message and posts its answer
workerOnMessage ==
  /\ workerInbox # <<>>
  /\ workerInbox' = Tail(workerInbox)
  /\ LET type == Head(workerInbox).type
         data == Head(workerInbox).data
     IN IF type = "process_batch"
        THEN LET processed == processBatch(calculationCache, data)
             IN /\ calculationCache' = processed.cache
                /\ workerOutbox' =
                     IF processed.threw THEN workerOutbox
                     ELSE Append(workerOutbox,
                                 [type |-> "batch_processed", data |-> processed.data])
        ELSE IF type = "calculate_stats"
        THEN /\ workerOutbox' = Append(workerOutbox, [type |-> "stats_calculated",
                                                      data |-> calculateStats(data)])
             /\ UNCHANGED calculationCache
        ELSE IF type = "clear_cache"
        THEN /\ calculationCache' = <<>>
             /\ workerOutbox' = Append(workerOutbox,
                                       [type |-> "cache_cleared", data |-> <<>>])
        ELSE IF type = "detect_movement"
        THEN LET movement == detectSignificantMovement(data)
             IN /\ workerOutbox' =
                     IF movement.threw THEN workerOutbox
                     ELSE Append(workerOutbox,
                                 [type |-> "movement_detected", data |-> movement.data])
                /\ UNCHANGED calculationCache
        ELSE UNCHANGED <<workerOutbox, calculationCache>>
  /\ ObservedHandler
  /\ UNCHANGED currRobotId
  /\ Silent
  /\ UNCHANGED <<simulationId, snapshotQueue, paused, lastFrameTime, lastRenderTime,
                 stopAnimation, drawingSimulation, sec, renderVars, dataWorker, rafQueue, frameQueue, clockVars, enqueueCount>>

\* a message of any kind reaches the worker (self.onmessage, e.data)
postMessage(type, data) ==
  /\ dataWorker
  /\ Len(workerInbox) + Len(workerOutbox) < MaxRequests
  /\ workerInbox' = Append(workerInbox, [type |-> type, data |-> data])
  /\ Observed
  /\ Silent
  /\ UNCHANGED <<simulationId, snapshotQueue, paused, lastFrameTime, lastRenderTime,
                 stopAnimation, drawingSimulation, sec, renderVars, dataWorker,
                 workerOutbox, rafQueue, frameQueue, clockVars, enqueueCount>>

\* the worker fails on its oldest message: the request is consumed and no
\* answer is posted.  The client registers dataWorker.onmessage only (lines
\* 1239-1257), no onerror and no timer, so no handler of the client runs.
workerError ==
  /\ workerInbox # <<>>
  /\ workerInbox' = Tail(workerInbox)
  /\ Observed
  /\ Silent
  /\ UNCHANGED <<simulationId, snapshotQueue, paused, lastFrameTime, lastRenderTime,
                 stopAnimation, drawingSimulation, sec, renderVars, dataWorker,
                 workerOutbox, rafQueue, frameQueue, clockVars, enqueueCount>>

\* processBatchResults(processedData), lines 1272-1287: the variables it writes
processBatchResults(processedData) ==
  LET mine == SelectItems(processedData, simulationId)
      redraw == \E i \in 1..Len(processedData) : processedData[i].needsFullRedraw
  IN /\ Len(rafQueue) + Len(mine) <= MaxPending
     /\ needsViewportUpdate' = (needsViewportUpdate \/ redraw)
     /\ snapshotQueue' = EnqueueAll(snapshotQueue, mine, enqueueCount)
     /\ enqueueCount' = enqueueCount + Len(mine)
     /\ rafQueue' = Requested(rafQueue, "drawLoop", Len(mine))
     /\ stopAnimation' = IF Len(mine) > 0 THEN FALSE ELSE stopAnimation
     /\ drawingSimulation' = IF Len(mine) > 0 THEN TRUE ELSE drawingSimulation
     /\ lastFrameTime' = IF Len(mine) > 0 THEN now ELSE lastFrameTime

\* socket.on("simulation_stats"), lines 431-442: the payload goes to the
\* worker when there is one, and nowhere otherwise
simulation_stats(data) ==
  /\ frameQueue = <<>>
  /\ Len(statsTrace.received) < MaxStats
  /\ statsTrace' = [statsTrace EXCEPT !.received = Append(@, data)]
  /\ workerInbox' = IF dataWorker
                    THEN Append(workerInbox, [type |-> "calculate_stats", data |-> data])
                    ELSE workerInbox
  /\ ObservedTick
  /\ UNCHANGED <<currRobotId, calculationCache>>
  /\ Silent
  /\ UNCHANGED <<simulationId, snapshotQueue, paused, lastFrameTime, lastRenderTime,
                 stopAnimation, drawingSimulation, sec, renderVars, dataWorker,
                 workerOutbox, rafQueue, frameQueue, clockVars, enqueueCount>>

\* dataWorker.onmessage, lines 1239-1257: the client handles the oldest
\* answer of the worker
dataWorkerOnMessage ==
  /\ frameQueue = <<>>
  /\ workerOutbox # <<>>
  /\ workerOutbox' = Tail(workerOutbox)
  /\ IF Head(workerOutbox).type = "batch_processed"
     THEN processBatchResults(Head(workerOutbox).data)
     ELSE UNCHANGED <<needsViewportUpdate, snapshotQueue, enqueueCount, rafQueue,
                      stopAnimation, drawingSimulation, lastFrameTime>>
  \* updateExtendedStats(data), lines 1290-1300: returns at line 1291 when
  \* there is no result
  /\ statsTrace' = IF /\ Head(workerOutbox).type = "stats_calculated"
                      /\ Head(workerOutbox).data # NullStats
                   THEN [statsTrace EXCEPT
                           !.delivered = Append(@, Head(workerOutbox).data)]
                   ELSE statsTrace
  /\ ObservedTick
  /\ UNCHANGED <<currRobotId, calculationCache>>
  /\ Silent
  /\ UNCHANGED <<simulationId, paused, lastRenderTime, sec, isFirstRender, viewScale,
                 viewCenterX, viewCenterY, dirtyRegions, robots, robotPrevPositions,
                 timeText, dataWorker, workerInbox, frameQueue, clockVars>>

(***************************************************************************)
(* The specification.                                                      *)
(***************************************************************************)
\* the circle lists the server may send
SecInputs == {<<>>, <<[center |-> <<0, 0>>, radius |-> 50]>>}

\* the world positions the user may click
ClickInputs == {<<0, 0>>, <<50, 50>>}

\* the statistics payloads the server may send: one without a stats entry,
\* one of a run without robots, one of a run of two robots
StatsInputs ==
  {[simulation_id |-> "A"],
   [stats |-> [total_distance |-> 0, final_time |-> 0, robot_details |-> <<>>]],
   [stats |-> [total_distance |-> 40, final_time |-> 10,
               robot_details |->
                 <<[distance_travelled |-> 10, color |-> "red", terminated |-> TRUE,
                    final_position |-> <<0, 0>>],
                   [distance_travelled |-> 30, color |-> "blue", terminated |-> FALSE,
                    final_position |-> <<20, 40>>]>>]]}

\* the payloads the server may send with time stamp t
PayloadInputs(t) == {Payload(t, k, EntitiesAt(t)) : k \in KindInputs(t)}

\* the batches the server may send when its next time stamp is t: up to
\* MaxBatch items, the first of run f and the others of run r
BatchInputs(t) ==
  {[i \in 1..n |-> Item(IF i = 1 THEN f ELSE r,
                        Payload(t + i - 1,
                                IF t + i - 1 \in MalformedTimes THEN k ELSE "frame",
                                EntitiesAt(t + i - 1)))] :
     n \in 0..MaxBatch, f \in RunIds, r \in RunIds, k \in Kinds}

\* the state after the page has loaded: resizeCanvas (lines 977-1005) and
\* initializeDataWorker (lines 1228-1269) have run
Init ==
  /\ simulationId = Undef
  /\ snapshotQueue = <<>>
  /\ paused = FALSE
  /\ lastFrameTime = 0
  /\ lastRenderTime = 0
  /\ stopAnimation = FALSE
  /\ drawingSimulation = FALSE
  /\ sec = <<>>
  /\ isFirstRender = TRUE
  /\ needsViewportUpdate = TRUE
  /\ viewScale = maxScale
  /\ viewCenterX = 0
  /\ viewCenterY = 0
  /\ dirtyRegions = <<>>
  /\ robots = <<>>
  /\ robotPrevPositions = <<>>
  /\ timeText = 0
  /\ dataWorker \in BOOLEAN
  /\ workerInbox = <<>>
  /\ workerOutbox = <<>>
  /\ emitted = <<>>
  /\ rafQueue = <<>>
  /\ frameQueue = <<>>
  /\ now = 0
  /\ nextTime = 1
  /\ enqueueCount = 0
  /\ lastDrawn = 0
  /\ tick = NoTick
  /\ clearsInRow = 0
  /\ statsTrace = [received |-> <<>>, delivered |-> <<>>]
  /\ currRobotId = 0
  /\ calculationCache = <<>>

Next ==
  \/ \E run \in RunIds \cup {Undef}, p \in PayloadInputs(nextTime) : simulation_data(run, p)
  \/ \E batch \in BatchInputs(nextTime) : simulation_data_batch(batch)
  \/ simulation_data_batch_invalid
  \/ \E run \in RunIds, circles \in SecInputs : smallest_enclosing_circle(run, circles)
  \/ \E data \in RunIds : simulation_start(data)
  \/ simulation_end
  \/ clearSimulation
  \/ \E id \in RunIds : start_simulation(id)
  \/ resizeCanvas
  \/ \E pos \in ClickInputs : handleCanvasClick(pos)
  \/ pause_simulation
  \/ play_simulation
  \/ \E data \in StatsInputs : simulation_stats(data)
  \/ workerOnMessage
  \/ workerError
  \/ dataWorkerOnMessage
  \/ \E d \in FrameGaps : BeginFrame(d)
  \/ drawLoop
  \/ drawSECCallback

\* the whole client
Spec == Init /\ [][Next]_vars

(***************************************************************************)
(* Two restrictions of the client whose state spaces are small: both run   *)
(* without the worker and without overlay messages.                        *)
(***************************************************************************)
\* gaps between two frames of a display that ticks once per frame period
FramePeriods == {17}
\* the Worker constructor threw (lines 1264-1268): dataWorker is null
InitPlayback == Init /\ ~dataWorker

\* a short stream: up to MaxStream snapshots, singly and in batches of up to
\* MaxShortBatch, while the server and the user start, pause, resume and clear
ShortPayloads == {p \in PayloadInputs(nextTime) : p.time <= MaxStream}
ShortBatches ==
  {b \in BatchInputs(nextTime) :
     Len(b) <= MaxShortBatch /\ nextTime + Len(b) <= MaxStream + 1}
NextPlayback ==
  \/ \E run \in RunIds \cup {Undef}, p \in ShortPayloads : simulation_data(run, p)
  \/ \E batch \in ShortBatches : simulation_data_batch(batch)
  \/ \E data \in RunIds : simulation_start(data)
  \/ clearSimulation
  \/ \E id \in RunIds : start_simulation(id)
  \/ pause_simulation
  \/ play_simulation
  \/ \E d \in FramePeriods : BeginFrame(d)
  \/ drawLoop
SpecPlayback == InitPlayback /\ [][NextPlayback]_vars

\* a backlog: one run whose snapshots arrive singly and in batches of up to
\* MaxBatch faster than the frames tick, on a display of either frame rate
NextBacklog ==
  \/ \E p \in PayloadInputs(nextTime) : simulation_data("A", p)
  \/ \E batch \in {b \in BatchInputs(nextTime) : RunsOf(b) \subseteq {"A"}} :
        simulation_data_batch(batch)
  \/ start_simulation("A")
  \/ pause_simulation
  \/ play_simulation
  \/ \E d \in FrameGaps : BeginFrame(d)
  \/ drawLoop
SpecBacklog == InitPlayback /\ [][NextBacklog]_vars

\* a run with its overlay: the server sends the enclosing circles and the
\* end event besides a short stream, and the user pauses and resumes
NextOverlay ==
  \/ \E run \in RunIds, p \in ShortPayloads : simulation_data(run, p)
  \/ \E run \in RunIds, circles \in SecInputs : smallest_enclosing_circle(run, circles)
  \/ simulation_end
  \/ start_simulation("A")
  \/ pause_simulation
  \/ play_simulation
  \/ \E d \in FramePeriods : BeginFrameRebased(d)
  \/ drawLoop
  \/ drawSECCallback
SpecOverlay == InitPlayback /\ [][NextOverlay]_vars

\* the viewport: snapshots with no robot, one robot, two robots at one
\* place and two robots far apart, runs started by the user or adopted
\* from the server, clears and resizes
EntityInputs(t) ==
  { <<>>,
    EntitiesAt(t),
    [id \in {1, 2} |-> <<50, 50>>],
    [id \in {1, 2} |-> IF id = 1 THEN <<-100000, 0>> ELSE <<100000, 70000>>] }
ViewportPayloads ==
  {Payload(nextTime, "frame", e) : e \in EntityInputs(nextTime)}
NextViewport ==
  \/ \E run \in RunIds, p \in ViewportPayloads :
        nextTime <= MaxStream /\ simulation_data(run, p)
  \/ \E data \in RunIds : simulation_start(data)
  \/ clearSimulation
  \/ start_simulation("A")
  \/ resizeCanvas
  \/ \E d \in FramePeriods : BeginFrame(d)
  \/ drawLoop
SpecViewport == InitPlayback /\ [][NextViewport]_vars

\* One run, started by the user and never cleared or superseded, never
\* paused, with a short stream of single snapshots; frames keep coming
\* while a callback is pending and their callbacks run (the browser runs
\* every requestAnimationFrame callback in the next frame).
FrameStep == \E d \in FrameGaps : BeginFrameRebased(d)
NextPlayout ==
  \/ simulationId = Undef /\ start_simulation("A")
  \/ \E p \in ShortPayloads : simulation_data("A", p)
  \/ FrameStep
  \/ drawLoop
SpecPlayout ==
  /\ InitPlayback /\ [][NextPlayout]_vars
  /\ WF_vars(FrameStep) /\ WF_vars(drawLoop)

(***************************************************************************)
(* Properties.                                                             *)
(***************************************************************************)
\* the variables of the program (the others record what the last step did)
programVars == <<simulationId, snapshotQueue, paused, lastFrameTime, lastRenderTime,
                 stopAnimation, drawingSimulation, sec, renderVars, workerVars,
                 rafQueue, frameQueue, now>>

\* a is an initial segment of b
IsPrefix(a, b) == Len(a) <= Len(b) /\ SubSeq(b, 1, Len(a)) = a

\* the drawLoop call that just ran passed the playback test of lines 873-874
TickEligible == tick.outcome \in {"played", "ended", "threw"}

\* C1: the snapshots passed to drawSnapshot are in the order of their
\* enqueue stamps and none is passed twice: the stamps a tick draws
\* increase, the first is later than every stamp drawn before the tick, and
\* the snapshots still queued are in stamp order and later than every
\* stamp drawn so far.
C1_DrawnInEnqueueOrder ==
  /\ \A i \in 1..Len(tick.drawn) - 1 : tick.drawn[i] < tick.drawn[i + 1]
  /\ tick.drawn # <<>> => tick.before < tick.drawn[1]
  /\ tick.drawn # <<>> => lastDrawn = tick.drawn[Len(tick.drawn)]
  /\ \A i \in 1..Len(snapshotQueue) - 1 : snapshotQueue[i].seq < snapshotQueue[i + 1].seq
  /\ \A i \in 1..Len(snapshotQueue) : lastDrawn < snapshotQueue[i].seq

\* C1, its case: a catch-up tick has drawn three snapshots after an earlier
\* tick had drawn one
C1_Witness ==
  tick.outcome = "played" /\ Len(tick.drawn) = maxCatchUp /\ tick.before > 0

\* C2: a tick that passed the playback test and found n >= 1 snapshots
\* dequeued min(3, floor(n/2)) of them if n > 5 and one otherwise.
C2_DequeueCount ==
  (TickEligible /\ tick.size >= 1) =>
     tick.dequeued = IF tick.size > backlogThreshold
                     THEN Min(maxCatchUp, tick.size \div 2) ELSE 1

\* C3: a catch-up tick that dequeued several snapshots invoked drawSnapshot
\* once, with the last of them, and the displayed time is that snapshot's.
C3_OneRepaintPerTick ==
  (TickEligible /\ tick.dequeued > 1) =>
     /\ Len(tick.drawn) = 1
     /\ timeText = tick.time

\* C4: a start with a new run id while a run is active with buffered
\* snapshots leaves the queue empty and the new id active.
C4_StartDiscardsBuffer ==
  [][(/\ simulationId \in RunIds
      /\ \E i \in 1..Len(snapshotQueue) : snapshotQueue[i].run = simulationId
      /\ simulationId' \in RunIds \ {simulationId})
      => snapshotQueue' = <<>>]_vars

\* C5: every snapshot a step adds to the queue carries the run id that is
\* active when it is added.
C5_EnqueuedOnlyForActiveRun ==
  [][\A i \in 1..Len(snapshotQueue') :
        snapshotQueue'[i].seq > enqueueCount => snapshotQueue'[i].run = simulationId]_vars

\* a snapshot message of a run other than the active one is handled
StaleSnapshotStep ==
  \E run \in RunIds, p \in ShortPayloads :
     run # simulationId /\ simulation_data(run, p)

\* a batch message none of whose items belongs to the active run is handled
StaleBatchStep ==
  \E batch \in ShortBatches :
     /\ batch # <<>>
     /\ simulationId \notin RunsOf(batch)
     /\ simulation_data_batch(batch)

\* C6: a stale snapshot or batch message leaves the queue, lastFrameTime,
\* stopAnimation, drawingSimulation, needsViewportUpdate, the overlay data
\* and the scheduled tick callbacks unchanged.
C6_StaleMessageChangesNothing ==
  [][(simulationId \in RunIds /\ (StaleSnapshotStep \/ StaleBatchStep)) =>
       UNCHANGED <<snapshotQueue, lastFrameTime, stopAnimation, drawingSimulation,
                   needsViewportUpdate, sec, rafQueue>>]_vars

\* C7: right after clearSimulation the run id is undefined, the queue, the
\* dirty set, robots and robotPrevPositions are empty, the viewport is the
\* default with isFirstRender set and paused is false; and a drawLoop call
\* made while the run id is undefined returns at line 855, dequeuing and
\* drawing nothing.
C7_ClearResets ==
  /\ clearsInRow >= 1 =>
       /\ simulationId = Undef
       /\ snapshotQueue = <<>>
       /\ dirtyRegions = <<>>
       /\ robots = <<>>
       /\ robotPrevPositions = <<>>
       /\ viewScale = maxScale /\ viewCenterX = 0 /\ viewCenterY = 0
       /\ isFirstRender
       /\ ~paused
  /\ simulationId = Undef =>
       /\ tick.outcome \in {"none", "returned"}
       /\ tick.dequeued = 0 /\ tick.drawn = <<>>

\* C7, its case: after snapshots were drawn the simulation was cleared, a
\* snapshot without a run id was buffered, and a tick has run
C7_Witness ==
  /\ simulationId = Undef /\ lastDrawn > 0
  /\ snapshotQueue # <<>>
  /\ tick.outcome = "returned"

\* C8: a clearSimulation that follows a clearSimulation changes no variable
\* of the program and emits nothing.
C8_ClearIdempotent ==
  [][(clearsInRow >= 1 /\ clearsInRow' >= 1) =>
       (UNCHANGED programVars /\ emitted' = <<>>)]_vars

\* C8, its case: the simulation was cleared twice in a row after a run that
\* drew snapshots
C8_Witness == clearsInRow = 2 /\ lastDrawn > 0

\* a step of the user's start (it emits start_simulation)
UserStartStep == emitted' # <<>> /\ emitted'[1].event = "start_simulation"

\* C9: a step taken while paused, other than a clear or a user start, leaves
\* the queue as it was or appends to it: no tick dequeues, and the queue at
\* resume is the queue at pause followed by the arrivals, in order.
C9_PausedQueueOnlyGrows ==
  [][(paused /\ clearsInRow' = 0 /\ ~UserStartStep)
       => IsPrefix(snapshotQueue, snapshotQueue')]_vars

\* C9, its case: a tick has run while paused, a frame period after the last
\* arrival, with two snapshots buffered
C9_Witness ==
  /\ paused /\ tick.outcome = "waited"
  /\ Len(snapshotQueue) >= 2
  /\ now - lastFrameTime >= timePerFrameMs

\* C10: lastFrameTime does not change while paused.
C10_PausedKeepsLastFrameTime ==
  [][(simulationId \in RunIds /\ paused /\ paused') =>
       lastFrameTime' = lastFrameTime]_vars

\* the step is a drawLoop call that passed the playback test with the
\* queue empty
ExhaustionStep == tick'.outcome \in {"played", "ended", "threw"} /\ tick'.size = 0

\* the step is a drawLoop call made after the loop was stopped
StoppedTickStep == stopAnimation /\ tick'.outcome # "none"

\* C11: a tick that passes the playback test and finds the queue empty
\* stops the loop (stopAnimation set, no drawLoop callback registered for
\* the next frame), dequeues nothing and calls drawSEC(sec) once, adding
\* one dirty region per circle; every drawLoop call made while the loop is
\* stopped returns without dequeuing, drawing or rescheduling.
C11_ExhaustionStopsLoop ==
  [][/\ ExhaustionStep =>
          /\ tick'.outcome = "ended"
          /\ stopAnimation' /\ ~drawingSimulation'
          /\ \A i \in 1..Len(rafQueue') : rafQueue'[i] # "drawLoop"
          /\ snapshotQueue' = snapshotQueue /\ tick'.drawn = <<>>
          /\ dirtyRegions' = drawSEC(dirtyRegions, sec)
          /\ Len(dirtyRegions') = Len(dirtyRegions) + Len(sec)
     /\ StoppedTickStep =>
          /\ tick'.outcome = "returned"
          /\ UNCHANGED <<snapshotQueue, rafQueue, dirtyRegions, stopAnimation>>]_vars

\* C11, its case: in a run that followed one whose snapshots were drawn, a
\* circle was received, a tick found the queue empty, drew the circle and
\* stopped the loop, and the next callback of the frame has returned
C11_Witness ==
  /\ tick.outcome = "returned" /\ stopAnimation
  /\ simulationId \in RunIds /\ sec # <<>>
  /\ Len(dirtyRegions) = Len(sec)
  /\ lastDrawn > 0


\* a call of drawLoop while the player is paused
PausedTickStep == paused /\ tick'.outcome # "none"

\* C12: a tick while paused never triggers exhaustion: whatever the queue
\* holds, empty included, it dequeues nothing, leaves the loop's stop flag
\* and the dirty regions (no overlay draw) as they were, and, the loop not
\* having been stopped before, requests the next frame for itself
C12_PausedTickNeverExhausts ==
  [][PausedTickStep =>
       /\ tick'.outcome \in {"returned", "throttled", "waited"}
       /\ UNCHANGED <<snapshotQueue, stopAnimation, drawingSimulation, dirtyRegions>>
       /\ (~stopAnimation /\ simulationId # Undef) =>
             rafQueue' = Append(rafQueue, "drawLoop")]_vars

\* C12, its case: paused, a circle received, more than a frame period since
\* the last frame, and a tick of the running loop has found the queue empty
C12_Witness ==
  /\ paused /\ ~stopAnimation /\ simulationId \in RunIds
  /\ QueueIsEmpty(snapshotQueue) /\ sec # <<>>
  /\ tick.outcome = "waited"
  /\ now - lastFrameTime >= timePerFrameMs
  /\ rafQueue # <<>> /\ rafQueue[Len(rafQueue)] = "drawLoop"

\* two calls of drawLoop in a row, in one display frame and so with the same
\* currentTime, that both took entries off the queue
TwoDequeuesInOneFrame ==
  /\ tick.dequeued > 0 /\ tick'.dequeued > 0
  /\ now' = now /\ simulationId' = simulationId

\* C13: a tick dequeues only if a frame period has passed since
\* lastFrameTime and the player is not paused, and two ticks of one run that
\* both dequeue are a frame period apart: never two of them in one frame
C13_DequeuesAFramePeriodApart ==
  [][/\ tick'.dequeued > 0 =>
          (now - lastFrameTime >= timePerFrameMs /\ ~paused)
     /\ ~TwoDequeuesInOneFrame]_vars

\* the well-formed snapshot with enqueue stamp n is in the queue
QueuedFrame(n) ==
  \E i \in 1..Len(snapshotQueue) :
     snapshotQueue[i].seq = n /\ snapshotQueue[i].snap.kind = "frame"
\* the tick that just ran passed the snapshot with enqueue stamp n to
\* drawSnapshot
DrawnByTick(n) == \E i \in 1..Len(tick.drawn) : tick.drawn[i] = n

\* C14: every well-formed snapshot enqueued for the run is eventually
\* passed to drawSnapshot, frames and their callbacks being fair, the run
\* never cleared or superseded and the player never paused
C14_EverySnapshotEventuallyDrawn ==
  \A n \in 1..MaxStream : QueuedFrame(n) ~> DrawnByTick(n)

\* the dirty-region set dr holds a region centered on the canvas position
\* of pos
HasRegionAt(dr, pos) ==
  \E i \in 1..Len(dr) : /\ dr[i].x = pos[1] * ROBOT_X_POS_FACTOR
                        /\ dr[i].y = pos[2] * ROBOT_Y_POS_FACTOR

\* a tick that drew: robotPrevPositions holds the positions recorded at the
\* tick before, robotPrevPositions' those of the snapshot drawn last
DrawingTickStep == tick'.outcome = "played" /\ tick'.drawn # <<>>

\* C15: after a tick that drew, for every robot whose position in the
\* snapshot drawn differs from the one recorded at the previous tick, the
\* dirty-region set holds a region centered on the old position and one
\* centered on the new position.
C15_OldAndNewRegions ==
  [][DrawingTickStep =>
       \A id \in DOMAIN robotPrevPositions :
          (id \in DOMAIN robotPrevPositions'
             /\ robotPrevPositions'[id] # robotPrevPositions[id]) =>
               /\ HasRegionAt(dirtyRegions', robotPrevPositions[id])
               /\ HasRegionAt(dirtyRegions', robotPrevPositions'[id])]_vars

\* the regions the ticks of a run can add between two drains, taking a
\* drawing tick and an exhausted tick together: two for each tracked robot
\* (old and new position) and one for each overlay circle
DirtyBound ==
  2 * Cardinality(RobotIds) + SetMax({Len(circles) : circles \in SecInputs})

\* C16: the dirty-region set stays within a bound fixed by the number of
\* tracked robots and overlay circles.
C16_DirtyRegionsBounded == Len(dirtyRegions) <= DirtyBound

\* a tick that draws the first snapshot of a run: none was drawn since the
\* run was started, adopted or cleared (each of the three empties
\* robotPrevPositions, every drawn snapshot with a robot fills it), and the
\* snapshot at the head of the queue is well formed, was sent for the
\* active run and is drawn
FirstDrawOfRunStep ==
  /\ DOMAIN robotPrevPositions = {}
  /\ ~QueueIsEmpty(snapshotQueue)
  /\ QueueFront(snapshotQueue).snap.kind = "frame"
  /\ QueueFront(snapshotQueue).run = simulationId
  /\ tick'.drawn # <<>>

\* C17: the tick that draws the first snapshot of a run, a run adopted by a
\* start event while another was active included, sets scale and center
\* to the fit of that snapshot.
C17_FitFromFirstSnapshot ==
  [][FirstDrawOfRunStep =>
       LET first == QueueFront(snapshotQueue).snap
       IN /\ viewScale' = FitScale(first.ents)
          /\ viewCenterX' = FitCenterX(first.ents)
          /\ viewCenterY' = FitCenterY(first.ents)]_vars

\* the viewport, and the values clearSimulation and resizeCanvas give it
viewport == <<viewScale, viewCenterX, viewCenterY>>
ResetViewport == <<maxScale, 0, 0>>

\* C18: a tick that draws when the first snapshot has been drawn leaves
\* scale and center as they are, and they change only by the fit of a
\* first snapshot or by a reset, which is no tick and gives the reset values
C18_ViewportFixedAfterFirstDraw ==
  [][/\ (tick'.drawn # <<>> /\ ~isFirstRender) => viewport' = viewport
     /\ viewport' # viewport =>
          \/ tick'.drawn # <<>> /\ isFirstRender
          \/ tick'.outcome = "none" /\ viewport' = ResetViewport]_vars

\* C18, its case: two snapshots were drawn with no start or clear between
\* them, first two robots at <<50, 50>>, then robot 1 alone elsewhere, and
\* the viewport is still the fit of the first
C18_Witness ==
  /\ tick.outcome = "played"
  /\ DOMAIN robotPrevPositions = {1, 2}
  /\ robotPrevPositions[2] = <<50, 50>> /\ robotPrevPositions[1] # <<50, 50>>
  /\ viewCenterX = 50 /\ viewCenterY = 50

\* C19: a snapshot of the active run with robots, drawn while the viewport
\* holds the reset values, as after resizeCanvas, sets scale and center to
\* the fit of its bounding box.
C19_ResizeRefits ==
  [][(/\ simulationId \in RunIds
      /\ viewport = ResetViewport
      /\ ~QueueIsEmpty(snapshotQueue)
      /\ QueueFront(snapshotQueue).snap.kind = "frame"
      /\ QueueFront(snapshotQueue).run = simulationId
      /\ DOMAIN QueueFront(snapshotQueue).snap.ents # {}
      /\ tick'.drawn # <<>>) =>
       LET next == QueueFront(snapshotQueue).snap
       IN viewport' = <<FitScale(next.ents), FitCenterX(next.ents),
                        FitCenterY(next.ents)>>]_vars

FreshRenderState ==
  [timeText |-> 0, isFirstRender |-> TRUE, needsViewportUpdate |-> TRUE,
   viewScale |-> maxScale, viewCenterX |-> 0, viewCenterY |-> 0,
   dirtyRegions |-> <<>>, robots |-> <<>>, robotPrevPositions |-> <<>>]

\* C21: the viewport after the first snapshot of a run is drawn is the one a
\* client that has just loaded gets from the same snapshot on the same
\* canvas: nothing of earlier runs enters it.
C21_FitIndependentOfHistory ==
  [][FirstDrawOfRunStep =>
       LET fresh == drawSnapshot(FreshRenderState, QueueFront(snapshotQueue).snap).state
       IN viewport' = <<fresh.viewScale, fresh.viewCenterX, fresh.viewCenterY>>]_vars

(***************************************************************************)
(* Statistics: the server's simulation_stats events, with and without the  *)
(* worker, while runs start.                                               *)
(***************************************************************************)
NextStats ==
  \/ \E data \in StatsInputs : simulation_stats(data)
  \/ \E data \in RunIds : simulation_start(data)
  \/ \E id \in RunIds : start_simulation(id)
  \/ workerOnMessage
  \/ dataWorkerOnMessage
SpecStats == Init /\ [][NextStats]_vars

\* the extended statistics of the payloads received so far, in order
ExpectedStats ==
  SelectSeq([i \in 1..Len(statsTrace.received) |->
               calculateStats(statsTrace.received[i])],
            LAMBDA result : result # NullStats)

\* C22: without a worker every simulation_stats event has delivered its
\* extended statistics, the result calculateStats gives with the worker, to
\* updateExtendedStats by the time its handler returns.
C22_StatsDeliveredWithoutWorker ==
  ~dataWorker => statsTrace.delivered = ExpectedStats

(***************************************************************************)
(* The worker path: batches go to the worker and come back or are lost,    *)
(* single snapshots are enqueued directly, runs start and are cleared.     *)
(***************************************************************************)
InitWorker == Init /\ dataWorker
NextWorker ==
  \/ \E run \in RunIds, p \in ShortPayloads : simulation_data(run, p)
  \/ \E batch \in ShortBatches : simulation_data_batch(batch)
  \/ \E data \in RunIds : simulation_start(data)
  \/ clearSimulation
  \/ \E id \in RunIds : start_simulation(id)
  \/ workerOnMessage
  \/ workerError
  \/ dataWorkerOnMessage
  \/ \E d \in FramePeriods : BeginFrame(d)
  \/ drawLoop
SpecWorker == InitWorker /\ [][NextWorker]_vars

\* the items the synchronous path of simulation_data_batch enqueues for a
\* batch while id is the active run (lines 381-396): all of them when the
\* first item is of the active run, none otherwise
FallbackItems(batch, id) ==
  IF Len(batch) > 0 /\ id = batch[1].simulation_id THEN batch ELSE <<>>

\* the client handles the worker's answer to a process_batch request
BatchAnsweredStep ==
  /\ workerOutbox # <<>>
  /\ Head(workerOutbox).type = "batch_processed"
  /\ workerOutbox' = Tail(workerOutbox)

\* C23: the snapshots the worker path enqueues for a batch are the ones the
\* synchronous path enqueues for the same batch under the same active run,
\* in the same order, whatever the batch: empty or of mixed runs.
C23_WorkerPathEnqueuesAsFallback ==
  [][BatchAnsweredStep =>
       snapshotQueue' = EnqueueAll(snapshotQueue,
                                   FallbackItems(Head(workerOutbox).data, simulationId),
                                   enqueueCount)]_vars

\* C24: snapshots are rendered in arrival order: a tick that draws leaves on
\* screen a snapshot that arrived after the one on screen before it, also
\* when a batch went through the worker while later snapshots were enqueued
\* directly.  The time stamps of the server's snapshots are their arrival
\* order; timeText is the time stamp of the snapshot on screen.
C24_RenderedInArrivalOrder ==
  [][tick'.drawn # <<>> /\ timeText # 0 => timeText' >= timeText]_vars

\* a clear (clearSimulation ran) or a start: the user's start_simulation, or
\* a simulation_start event that changes the active run
ClearOrStartStep ==
  \/ clearsInRow' >= 1
  \/ emitted' # <<>> /\ emitted'[1].event = "start_simulation"
  \/ simulationId' # simulationId

\* C25: whenever a worker exists, every clear and every start posts a
\* clear_cache message to it.
C25_ClearCacheOnClearAndStart ==
  [][dataWorker /\ ClearOrStartStep =>
       workerInbox' = Append(workerInbox, [type |-> "clear_cache", data |-> <<>>])]_vars

\* a process_batch request is lost: consumed without an answer
BatchLostStep ==
  /\ workerInbox # <<>>
  /\ Head(workerInbox).type = "process_batch"
  /\ workerInbox' = Tail(workerInbox)
  /\ workerOutbox' = workerOutbox

\* C26: when a process_batch request is lost in the worker the batch is
\* processed on the synchronous path: its snapshots are enqueued as that
\* path enqueues them.
C26_LostBatchFallsBack ==
  [][BatchLostStep =>
       snapshotQueue' = EnqueueAll(snapshotQueue,
                                   FallbackItems(Head(workerInbox).data, simulationId),
                                   enqueueCount)]_vars

\* C27: while no run is active a pause or resume changes nothing, the pause
\* flag included: a step that starts from and ends in the state without a
\* run, and is not a clear, leaves the flag as it was.
C27_PauseIgnoredWhileIdle ==
  [][simulationId = Undef /\ simulationId' = Undef /\ clearsInRow' = 0 =>
       paused' = paused]_vars

\* C28: a malformed snapshot (missing, or not a [time, robots] pair that
\* can be drawn) is dropped on arrival: the queue holds well-formed
\* snapshots only, so none is drawn and none stops the loop.
C28_MalformedNeverEnqueued ==
  \A i \in 1..Len(snapshotQueue) : snapshotQueue[i].snap.kind = "frame"

\* a drawLoop call of a running loop (it passed lines 855-856) at a time
\* less than the throttle interval after the last render
EarlyTickStep ==
  /\ tick'.outcome \notin {"none", "returned"}
  /\ now - lastRenderTime < RENDER_THROTTLE_MS

\* C29: a tick less than 16 ms after the last render with no viewport
\* update pending dequeues nothing, draws nothing and only requests the
\* next frame; with a viewport update pending the throttle does not skip it.
C29_ThrottleSkipsTick ==
  [][EarlyTickStep =>
       IF needsViewportUpdate
       THEN tick'.outcome # "throttled"
       ELSE /\ tick'.outcome = "throttled"
            /\ tick'.dequeued = 0 /\ tick'.drawn = <<>>
            /\ rafQueue' = Append(rafQueue, "drawLoop")
            /\ UNCHANGED <<simulationId, snapshotQueue, paused, lastFrameTime,
                           lastRenderTime, stopAnimation, drawingSimulation, sec,
                           renderVars, workerVars, now, lastDrawn>>]_vars

\* C29, its case: a tick of an unpaused run with snapshots queued was
\* skipped by the throttle
C29_Witness ==
  /\ tick.outcome = "throttled"
  /\ QueueSize(snapshotQueue) > 0 /\ ~paused

(***************************************************************************)
(* Entity tracking: a short stream while runs start and are cleared and    *)
(* the user places robots by clicks.                                       *)
(***************************************************************************)
NextTracking ==
  \/ \E run \in RunIds, p \in ShortPayloads : simulation_data(run, p)
  \/ \E data \in RunIds : simulation_start(data)
  \/ clearSimulation
  \/ start_simulation("A")
  \/ \E pos \in ClickInputs : handleCanvasClick(pos)
  \/ \E d \in FramePeriods : BeginFrame(d)
  \/ drawLoop
SpecTracking == InitPlayback /\ [][NextTracking]_vars

\* the entity tracking state
tracking == <<robots, robotPrevPositions>>

\* C30: the entity tracking state changes only in a render tick, which
\* draws a snapshot, and in a clear (clearSimulation, also as the first
\* call of the user's start): no other handler changes it.
C30_TrackingOwnedByTick ==
  [][tracking' # tracking =>
       \/ tick'.drawn # <<>>
       \/ clearsInRow' >= 1
       \/ emitted' # <<>> /\ emitted'[1].event = "start_simulation"]_vars

(***************************************************************************)
(* The worker's protocol: requests of every kind, the worker's answers     *)
(* and the client's handling of them.                                      *)
(***************************************************************************)
\* the batches a process_batch request may carry: none, one or two
\* well-formed snapshots, and a snapshot whose robots object is null
ProtocolBatches ==
  {<<>>,
   <<Item("A", Payload(1, "frame", EntitiesAt(1)))>>,
   <<Item("A", Payload(1, "frame", EntitiesAt(1))),
     Item("A", Payload(2, "frame", EntitiesAt(2)))>>,
   <<Item("A", Payload(1, "hollow", <<>>))>>}
\* the histories a detect_movement request may carry
ProtocolHistories == {b \in ProtocolBatches : \A i \in 1..Len(b) : b[i].snapshot.kind = "frame"}
NextProtocol ==
  \/ \E batch \in ProtocolBatches : postMessage("process_batch", batch)
  \/ \E data \in StatsInputs : simulation_stats(data)
  \/ postMessage("clear_cache", <<>>)
  \/ \E history \in ProtocolHistories : postMessage("detect_movement", history)
  \/ postMessage("ping", <<>>)
  \/ workerOnMessage
  \/ dataWorkerOnMessage
SpecProtocol == InitWorker /\ [][NextProtocol]_vars

\* the response kind of each request kind the worker knows (lines 11-42)
ResponseKind ==
  [process_batch |-> "batch_processed", calculate_stats |-> "stats_calculated",
   clear_cache |-> "cache_cleared", detect_movement |-> "movement_detected"]

\* the worker handles its oldest request
WorkerHandlesStep == workerInbox # <<>> /\ workerInbox' = Tail(workerInbox)

\* C31: the worker handles its requests in the order received and answers
\* each request of a known kind with exactly one response of the matching
\* kind, and a request of an unknown kind with none.
C31_OneMatchingResponse ==
  [][WorkerHandlesStep =>
       LET type == Head(workerInbox).type
       IN IF type \in DOMAIN ResponseKind
          THEN /\ Len(workerOutbox') = Len(workerOutbox) + 1
               /\ SubSeq(workerOutbox', 1, Len(workerOutbox)) = workerOutbox
               /\ workerOutbox'[Len(workerOutbox')].type = ResponseKind[type]
          ELSE workerOutbox' = workerOutbox]_vars

\* the entities of the snapshots before the i-th of a batch
SeenBefore(batch, i) ==
  UNION {DOMAIN batch[j].snapshot.ents : j \in 1..(i - 1)}

\* the entities the movement list of an answered item names
MovedIds(item) == {item.robotMovements[k].id : k \in 1..Len(item.robotMovements)}

\* C32: the movement list of a snapshot names exactly the entities that
\* appeared in an earlier snapshot since the last clear_cache: for a batch
\* the worker processes with an empty cache, the entities of the snapshot
\* that an earlier snapshot of the batch had; none for the first snapshot.
C32_MovementsOfKnownEntities ==
  [][(/\ WorkerHandlesStep
      /\ Head(workerInbox).type = "process_batch"
      /\ calculationCache = <<>>
      /\ Len(workerOutbox') = Len(workerOutbox) + 1) =>
       LET batch == Head(workerInbox).data
           answer == workerOutbox'[Len(workerOutbox')].data
       IN \A i \in 1..Len(batch) :
            MovedIds(answer[i]) = DOMAIN batch[i].snapshot.ents \cap SeenBefore(batch, i)]_vars

\* the drawLoop callbacks pending: registered for the next frame or still
\* to run in the running one
PendingDrawLoops ==
  Cardinality({i \in 1..Len(rafQueue) : rafQueue[i] = "drawLoop"})
    + Cardinality({i \in 1..Len(frameQueue) : frameQueue[i] = "drawLoop"})

\* C33: at most one drawLoop callback is pending at any time.
C33_OneDrawLoopPending == PendingDrawLoops <= 1

\* C34: of the drawLoop calls that run for one display frame at most one
\* takes snapshots off the queue: a call that dequeued is never followed,
\* in the same frame, by another call that dequeues.
C34_OneDequeuingTickPerFrame ==
  [][~(tick.dequeued > 0 /\ tick'.dequeued > 0 /\ now' = now)]_vars

\* C35: after a tick that processed at least one snapshot, lastFrameTime
\* and lastRenderTime are both the tick's currentTime.
C35_TimersSetByProcessingTick ==
  (tick.outcome = "played" /\ tick.drawn # <<>>) =>
     (lastFrameTime = now /\ lastRenderTime = now)

\* the batch_ack of lines 399-403 for a batch
BatchAck(batch) ==
  <<[event |-> "batch_ack", count |-> Len(batch), simulation_id |-> simulationId]>>

\* C36: every simulation_data_batch message with a batch array is answered
\* with exactly one batch_ack carrying the batch length, whether or not the
\* batch's run id is the active run.
C36_EveryBatchAcknowledged ==
  [][\A batch \in ShortBatches :
       simulation_data_batch(batch) => emitted' = BatchAck(batch)]_vars

\* a step in which a drawSEC callback is requested: only simulation_end
\* requests one (lines 424-428)
EndReceivedStep == rafQueue' = Requested(rafQueue, "drawSEC", 1)

=============================================================================
